---- MODULE Spec2Model ----
(***************************************************************************)
(* Attendance session handling of the HR application: the scan handlers    *)
(* of AttendancePage.tsx, Settings.tsx (AttendanceScanner), the            *)
(* EmployeePortal of ShiftsManagement.tsx and the exported markAttendance  *)
(* function, all working on the shared "attendances" table.                *)
(*                                                                         *)
(* Time is counted in whole seconds.  Every handler is an async function:  *)
(* it runs up to its next storage request in one step, the storage request *)
(* and the code after it form the following step.                          *)
(***************************************************************************)
EXTENDS Integers, Sequences, FiniteSets, TLC

\* ---------------------------------------------------------------- bounds
MaxReq == 2          \* handler invocations that can be in flight at once
MaxRows == 2         \* rows the attendances table can hold
MaxTicks == 2        \* number of clock advances

\* ------------------------------------------------------------- constants
SecondsPerMinute == 60
SecondsPerHour == 3600
DayLen == 86400

Persons == {"p1"}
Terminals == {"AttendancePage", "Settings", "EmployeePortal", "Lib", "AttendanceWidget"}
Reqs == 1..MaxReq

\* the instants at which the model looks at the system: in turn 50 seconds
\* after the last one, and at the next midnight
ShortStep == 50
TickStep(n) == IF n % 2 = 0 THEN ShortStep ELSE DayLen - ShortStep

\* the local time of a terminal can be five hours ahead of UTC; seen at
\* intervals of ten hours, an instant of the UTC evening is reached at
\* which the local day is already the next one
ZoneAhead == 5 * SecondsPerHour
LongStep == 10 * SecondsPerHour

\* how far the wall clock of a terminal can be ahead of the other clocks
MaxSkew == 50

Null == <<>>
Some(x) == <<x>>
Val(o) == o[1]

VARIABLES rows, clock, ticks, offset, mode, scannerVisible, req

\* the timezone of each terminal, in seconds ahead of UTC
VARIABLES zone

\* the scanner page (public/fingerprint/app.js): its URL parameter, its
\* roster, the onSamplesAcquired invocations with the message each posted
\* to the parent, whether the device is acquiring; and one evaluation of
\* the similarity scorer
VARIABLES urlMode, employeeList, run, acquiring, ssim

scanner == <<urlMode, employeeList, run, acquiring, ssim>>

vars == <<rows, clock, ticks, offset, zone, mode, scannerVisible, req, scanner>>

\* -------------------------------------------------------------- helpers
Abs(x) == IF x < 0 THEN -x ELSE x
Sign(x) == IF x < 0 THEN -1 ELSE 1

\* dayjs() / new Date(): the wall clock of the terminal that runs the code
Wall(t) == clock + offset[t]

\* a.diff(b, "minute"): whole minutes, truncated towards zero
DiffMinutes(a, b) == Sign(a - b) * (Abs(a - b) \div SecondsPerMinute)

\* n/d rounded to the nearest integer, halves away from zero (toFixed)
RoundDiv(n, d) == Sign(n) * ((2 * Abs(n) + d) \div (2 * d))

\* Number(out.diff(in, "minute") / 60).toFixed(2), in hundredths of an hour
TotalHoursMinutes(out, in) == RoundDiv(DiffMinutes(out, in) * 100, 60)

\* +((out - in) / 3600000).toFixed(2), in hundredths of an hour
TotalHoursExact(out, in) == RoundDiv((out - in) * 100, SecondsPerHour)

\* startOfDayIso / endOfDayIso: s.setHours(0, 0, 0, 0) and
\* e.setHours(23, 59, 59, 999) set the hours of the local time of the
\* terminal that runs the code, zone[t] seconds ahead of UTC; toISOString
\* gives the instant back: the bounds of the local calendar day of d
startOfDayIso(t, d) == ((d + zone[t]) \div DayLen) * DayLen - zone[t]
endOfDayIso(t, d) == startOfDayIso(t, d) + DayLen - 1

RowIds == 1..Len(rows)

\* .eq("employee_id", e).is("check_out", null)
OpenRows(e) == {i \in RowIds : rows[i].employee_id = e /\ rows[i].check_out = Null}

\* .eq("employee_id", e).gte("check_in", start).lt("check_in", end)
\* (end is 23:59:59.999, so in whole seconds every instant of the day)
TodayRows(t, e, now) ==
  {i \in RowIds : /\ rows[i].employee_id = e
                  /\ rows[i].check_in >= startOfDayIso(t, now)
                  /\ rows[i].check_in <= endOfDayIso(t, now)}

\* .maybeSingle(): the row when exactly one matches, no data otherwise
\* (an error is returned along with no data when several rows match)
MaybeSingle(S) == IF Cardinality(S) = 1 THEN CHOOSE i \in S : TRUE ELSE 0
MaybeSingleError(S) == Cardinality(S) > 1

\* .order("check_in", {ascending: false}).limit(1): the rows a query for
\* the latest check_in can return (the order among equal keys is not fixed)
Latest(S) == {i \in S : \A j \in S : rows[j].check_in <= rows[i].check_in}

NewRow(e, now) ==
  [employee_id |-> e, check_in |-> now, check_out |-> Null,
   total_hours |-> Null, status |-> "checked_in"]

\* an update that leaves the status as it is
CloseRowKeepStatus(r, out, total) ==
  [r EXCEPT !.check_out = Some(out), !.total_hours = Some(total)]

CloseRow(r, out, total) ==
  [r EXCEPT !.check_out = Some(out), !.total_hours = Some(total),
            !.status = "checked_out"]

IdleReq ==
  [pc |-> "idle", term |-> "Lib", emp |-> "p1", mode |-> "none",
   visible |-> FALSE, now |-> 0, last |-> 0, out |-> 0, total |-> 0,
   outcome |-> "none", effect |-> "none"]

Free(r) == req[r].pc \in {"idle", "done"}
FreeSlot == CHOOSE r \in Reqs : Free(r) /\ \A q \in Reqs : Free(q) => r <= q
HasFree == \E r \in Reqs : Free(r)

\* the state of the pages after they are mounted, on an empty table
\* ------------------------------------------------- similarity scorer
\* images: width, height and the red channel of the pixels row by row (the
\* only channel computeSSIM reads).  Intensities are the multiples of 51
\* from 0 to 255, kept as levels 0..5.
MaxW == 10           \* largest image width
MaxH == 2            \* largest image height
Level == 255 \div 51 \* the level of a white pixel
Patterns == {"black", "white", "stripes", "inverse"}

Min(a, b) == IF a < b THEN a ELSE b

PatternPixel(pat, i, j) ==
  CASE pat = "black" -> 0
    [] pat = "white" -> Level
    [] pat = "stripes" -> IF (i + j) % 2 = 0 THEN Level ELSE 0
    [] OTHER -> IF (i + j) % 2 = 0 THEN 0 ELSE Level

\* ImageData of an image: what base64ToImageData resolves to
Image(w, h, pat) ==
  [width |-> w, height |-> h,
   data |-> [k \in 1..(w * h) |-> PatternPixel(pat, (k - 1) % w, (k - 1) \div w)]]

Images == {Image(w, h, pat) : w \in 1..MaxW, h \in 1..MaxH, pat \in Patterns}

\* JavaScript numbers as far as the scorer needs them: a value is NaN or a
\* number; a score is kept in thousandths, rounded down
NaN == <<>>
Num(n) == <<n>>
ScoreUnit == 1000
windowSize == 8
\* C1 = 6.5025 and C2 = 58.5225, in ten-thousandths
C1 == 65025
C2 == 585225
\* an intensity is 51 * level, so a squared intensity is PerC1 * C1 per
\* squared level (PerC1 = 400) and C2 is C2PerC1 * C1 (C2PerC1 = 9): the
\* numerators and denominators below are kept in units of C1
PerC1 == (51 * 51 * 10000) \div C1
C2PerC1 == C2 \div C1

RECURSIVE Sum(_)
Sum(seq) == IF seq = <<>> THEN 0 ELSE Head(seq) + Sum(Tail(seq))

\* n / d for d > 0, in thousandths, digit by digit
FixDiv(n, d) ==
  LET r0 == n % d
      r1 == (r0 * 10) % d
      r2 == (r1 * 10) % d
  IN (n \div d) * ScoreUnit
       + ((r0 * 10) \div d) * 100 + ((r1 * 10) \div d) * 10 + ((r2 * 10) \div d)

\* data[idx] of a Uint8ClampedArray is undefined past its end of the array
Defined(img, idx) == idx < Len(img.data)
Pixel(img, idx) == IF Defined(img, idx) THEN img.data[idx + 1] ELSE 0

\* getBlockStats(x, y): the block's pixel count N, the divisor N - 1 of the
\* variances, and the block's SSIM term
getBlockStats(img1, img2, x, y) ==
  LET w == img1.width
      h == img1.height
      bw == Min(windowSize, w - x)
      bh == Min(windowSize, h - y)
      N == bw * bh
      idx(k) == (y + ((k - 1) \div bw)) * w + x + ((k - 1) % bw)
      I1(k) == Pixel(img1, idx(k))
      I2(k) == Pixel(img2, idx(k))
      numeric == \A k \in 1..N : Defined(img1, idx(k)) /\ Defined(img2, idx(k))
      s1 == Sum([k \in 1..N |-> I1(k)])
      s2 == Sum([k \in 1..N |-> I2(k)])
      q11 == N * Sum([k \in 1..N |-> I1(k) * I1(k)]) - s1 * s1
      q22 == N * Sum([k \in 1..N |-> I2(k) * I2(k)]) - s2 * s2
      q12 == N * Sum([k \in 1..N |-> I1(k) * I2(k)]) - s1 * s2
      \* (2 mu1 mu2 + C1) / (mu1^2 + mu2^2 + C1)
      lum == FixDiv(2 * PerC1 * s1 * s2 + N * N, PerC1 * (s1 * s1 + s2 * s2) + N * N)
      \* (2 sigma12 + C2) / (sigma1Sq + sigma2Sq + C2), the sigmas over N - 1
      cs == FixDiv(2 * PerC1 * q12 + C2PerC1 * N * (N - 1),
                   PerC1 * (q11 + q22) + C2PerC1 * N * (N - 1))
  IN [x |-> x, y |-> y, N |-> N, divisor |-> N - 1,
      value |-> IF ~numeric THEN NaN      \* undefined in the sums
                ELSE IF N - 1 = 0 THEN NaN \* 0 / 0
                ELSE Num((lum * cs) \div ScoreUnit)]

\* the block loops with a step one short of the window (y += windowSize - 1)
RECURSIVE BlockLoopOverlap(_, _, _, _, _)
BlockLoopOverlap(img1, img2, x, y, seen) ==
  IF y >= img1.height THEN seen
  ELSE IF x >= img1.width THEN BlockLoopOverlap(img1, img2, 0, y + windowSize - 1, seen)
  ELSE BlockLoopOverlap(img1, img2, x + windowSize - 1, y,
                        Append(seen, getBlockStats(img1, img2, x, y)))

\* the block loops of computeSSIM: y from 0 while y < h, x from 0 while
\* x < w, both in steps of windowSize
RECURSIVE BlockLoop(_, _, _, _, _)
BlockLoop(img1, img2, x, y, seen) ==
  IF y >= img1.height THEN seen
  ELSE IF x >= img1.width THEN BlockLoop(img1, img2, 0, y + windowSize, seen)
  ELSE BlockLoop(img1, img2, x + windowSize, y,
                 Append(seen, getBlockStats(img1, img2, x, y)))

\* computeSSIM(imgData1, imgData2): the blocks it visits and total / count
computeSSIM(img1, img2) ==
  LET blocks == BlockLoop(img1, img2, 0, 0, <<>>)
      count == Len(blocks)
      total == IF \E b \in 1..count : blocks[b].value = NaN THEN NaN
               ELSE Num(Sum([b \in 1..count |-> Val(blocks[b].value)]))
  IN [blocks |-> blocks, count |-> count,
      score |-> IF total = NaN THEN NaN ELSE Num(Val(total) \div count)]

\* ------------------------------------------------------ scanner page
MaxRun == 2          \* onSamplesAcquired invocations in flight at once
MaxRoster == 3       \* templates in a roster message
Runs == 1..MaxRun
THRESHOLD == 360

\* what base64ToImageData is given: a data URL that decodes to an image, or
\* one that does not (img.onload never runs)
Png(img) == [decodes |-> TRUE, image |-> img]
Corrupt == [decodes |-> FALSE, image |-> Image(1, 1, "black")]

\* the samples of the device
Captures == {Image(2, 1, "stripes"), Image(2, 1, "inverse")}

\* the rows of the employees table that have biometric_data: two employees
\* enrolled with the same image, one with a larger image, one with a
\* smaller image, one whose data is not an image
Templates ==
  {[emp |-> "e1", biometric_data |-> Png(Image(2, 1, "stripes"))],
   [emp |-> "e2", biometric_data |-> Png(Image(2, 1, "stripes"))],
   [emp |-> "e3", biometric_data |-> Png(Image(3, 1, "stripes"))],
   [emp |-> "e4", biometric_data |-> Png(Image(1, 1, "white"))],
   [emp |-> "e5", biometric_data |-> Corrupt]}

\* the data of an employees message: each row at most once
Rosters(n) ==
  UNION {{l \in [1..k -> Templates] : \A i, j \in 1..k : l[i] = l[j] => i = j} : k \in 0..n}

NoMessage == [type |-> "none", status |-> "none", employee |-> "none"]
IdleRun ==
  [pc |-> "idle", capture |-> Image(1, 1, "black"), list |-> <<>>, idx |-> 0,
   bestMatch |-> Null, scored |-> <<>>, refreshed |-> FALSE, message |-> NoMessage]
Unscored ==
  [pc |-> "idle", imgData1 |-> Image(1, 1, "black"), imgData2 |-> Image(1, 1, "black"),
   blocks |-> <<>>, score |-> NaN]

\* app.js as loaded with ?mode=m, before any message
ScannerStart(m) ==
  /\ urlMode = m
  /\ employeeList = <<>>
  /\ run = [r \in Runs |-> IdleRun]
  /\ acquiring = TRUE

Start ==
  /\ rows = <<>>
  /\ clock = 0
  /\ ticks = 0
  /\ mode = [t \in Terminals |-> IF t = "EmployeePortal" THEN "check-in" ELSE "none"]
  /\ scannerVisible = [t \in Terminals |-> FALSE]
  /\ req = [r \in Reqs |-> IdleReq]

\* all terminals have the same wall clock
Init ==
  /\ Start /\ offset = [t \in Terminals |-> 0] /\ zone = [t \in Terminals |-> 0]
  /\ ScannerStart("attendance") /\ ssim = Unscored

\* the wall clock of one terminal is ahead of the others
InitSkew ==
  /\ Start
  /\ offset = [u \in Terminals |-> IF u = "Settings" THEN MaxSkew ELSE 0]
  /\ zone = [t \in Terminals |-> 0]
  /\ ScannerStart("attendance") /\ ssim = Unscored

\* the EmployeePortal runs on a terminal whose local time is ahead of UTC,
\* the other terminals run in UTC
InitZones ==
  /\ Start /\ offset = [t \in Terminals |-> 0]
  /\ zone = [t \in Terminals |-> IF t = "EmployeePortal" THEN ZoneAhead ELSE 0]
  /\ ScannerStart("attendance") /\ ssim = Unscored

\* time passes
Tick ==
  /\ ticks < MaxTicks
  /\ clock' = clock + TickStep(ticks)
  /\ ticks' = ticks + 1
  /\ UNCHANGED <<rows, offset, zone, mode, scannerVisible, req>>
  /\ UNCHANGED scanner

\* time passes by hours
TickHours ==
  /\ ticks < MaxTicks
  /\ clock' = clock + LongStep
  /\ ticks' = ticks + 1
  /\ UNCHANGED <<rows, offset, zone, mode, scannerVisible, req>>
  /\ UNCHANGED scanner

\* ------------------------------------------------------------ UI actions
\* startScanner(type) of the two AttendanceScanner pages
startScanner(t, type) ==
  /\ t \in {"AttendancePage", "Settings"}
  /\ mode' = [mode EXCEPT ![t] = type]
  /\ scannerVisible' = [scannerVisible EXCEPT ![t] = TRUE]
  /\ UNCHANGED <<rows, clock, ticks, offset, zone, req>>
  /\ UNCHANGED scanner

\* openFingerprintScanner(mode) of the EmployeePortal
openFingerprintScanner(type) ==
  /\ mode' = [mode EXCEPT !["EmployeePortal"] = type]
  /\ scannerVisible' = [scannerVisible EXCEPT !["EmployeePortal"] = TRUE]
  /\ UNCHANGED <<rows, clock, ticks, offset, zone, req>>
  /\ UNCHANGED scanner

\* the Close button of the EmployeePortal's scanner overlay
closeScanner ==
  /\ scannerVisible["EmployeePortal"]
  /\ scannerVisible' = [scannerVisible EXCEPT !["EmployeePortal"] = FALSE]
  /\ UNCHANGED <<rows, clock, ticks, offset, zone, mode, req>>
  /\ UNCHANGED scanner

\* ------------------------------------------------------- window messages
Messages ==
  [type : {"fingerprint-attendance", "fingerprint-register"},
   status : {"match", "no_match"},
   employee : Persons \cup {"none"},
   sameOrigin : BOOLEAN]

\* a handler invocation that has passed its guards and awaits storage
\* (mode and visible record the page's state when the message arrived)
NewReq(t, pc, e, type) ==
  [IdleReq EXCEPT !.pc = pc, !.term = t, !.emp = e, !.mode = type,
                  !.visible = scannerVisible[t], !.now = Wall(t)]

\* the invocation takes the first free slot; the records of the invocations
\* that ended before it started are dropped, so that the records kept at
\* any time are those of invocations that ran concurrently
StartReq(t, pc, e, type) ==
  [r \in Reqs |-> IF r = FreeSlot THEN NewReq(t, pc, e, type)
                  ELSE IF req[r].pc = "done" THEN IdleReq
                  ELSE IF req[r].pc = "timer" THEN [IdleReq EXCEPT !.pc = "timer"]
                  ELSE req[r]]

\* AttendancePage.tsx: handler(e) up to its first storage request; a
\* message that is not a match of an employee only changes the status line
AttendancePageHandler(msg) ==
  LET t == "AttendancePage" IN
  /\ msg.type = "fingerprint-attendance"
  /\ mode[t] # "none" /\ scannerVisible[t]
  /\ ~(msg.status # "match" \/ msg.employee = "none")
  /\ HasFree
  /\ req' = StartReq(t, IF mode[t] = "check-in" THEN "ci_select" ELSE "co_select",
                     msg.employee, mode[t])
  /\ UNCHANGED <<rows, clock, ticks, offset, zone, mode, scannerVisible>>
  /\ UNCHANGED scanner

\* Settings.tsx: handleScan(e) up to its first storage request
SettingsHandleScan(msg) ==
  LET t == "Settings" IN
  /\ msg.type = "fingerprint-attendance"
  /\ mode[t] # "none" /\ scannerVisible[t]
  /\ ~(msg.status = "no_match" \/ msg.employee = "none")
  /\ HasFree
  /\ req' = StartReq(t, IF mode[t] = "check-in" THEN "ci_select" ELSE "co_select",
                     msg.employee, mode[t])
  /\ UNCHANGED <<rows, clock, ticks, offset, zone, mode, scannerVisible>>
  /\ UNCHANGED scanner

\* ShiftsManagement.tsx: onMessage(event) with the lookup of the employees
\* row, up to the first attendance query of markAttendanceForEmployeeId
EmployeePortalOnMessage(msg) ==
  LET t == "EmployeePortal" IN
  /\ msg.sameOrigin
  /\ msg.type = "fingerprint-attendance"
  /\ ~(msg.status # "match" \/ msg.employee = "none")
  /\ HasFree
  /\ req' = StartReq(t, "mk_select", msg.employee, mode[t])
  /\ UNCHANGED <<rows, clock, ticks, offset, zone, mode, scannerVisible>>
  /\ UNCHANGED scanner

\* markAttendance(employeeId, type), the exported function
LibMarkAttendance(e, type) ==
  /\ HasFree
  /\ req' = StartReq("Lib", IF type = "check-in" THEN "ci_select" ELSE "co_select",
                     e, type)
  /\ UNCHANGED <<rows, clock, ticks, offset, zone, mode, scannerVisible>>
  /\ UNCHANGED scanner

\* ------------------------------------------- check-in: select, then insert
\* the end of a handler invocation: its outcome as shown to the operator,
\* and what it did to the table ("created", "closed", "failed" or "none")
Finish(r, outcome, effect) ==
  [req EXCEPT ![r] =
     [IdleReq EXCEPT !.pc = IF req[r].term = "Settings" /\ effect \in {"created", "closed"}
                           THEN "timer" ELSE "done",
                     !.term = req[r].term, !.emp = req[r].emp, !.mode = req[r].mode,
                     !.now = req[r].now,
                     !.outcome = outcome, !.effect = effect]]

\* the page hides the scanner after a success
Hide(t, hide) ==
  IF hide /\ t # "Lib" THEN [scannerVisible EXCEPT ![t] = FALSE] ELSE scannerVisible

\* what a page reports after a write that succeeded (ok) or failed
\* (AttendancePage.tsx does not look at the result of the write)
Report(t, ok, good, bad) == IF ok \/ t = "AttendancePage" THEN good ELSE bad

\* the select of the open rows of the employee and the code after it
CheckInSelect(r) ==
  LET existing == MaybeSingle(OpenRows(req[r].emp)) IN
  /\ req[r].pc = "ci_select"
  /\ req' = IF existing # 0
            THEN Finish(r, "AlreadyCheckedIn", "none")
            ELSE [req EXCEPT ![r].pc = "ci_insert"]
  /\ UNCHANGED <<rows, clock, ticks, offset, zone, mode, scannerVisible>>
  /\ UNCHANGED scanner

\* the insert of the new row and the code after it
CheckInInsert(r) ==
  LET t == req[r].term IN
  /\ req[r].pc = "ci_insert"
  /\ \E ok \in BOOLEAN :
       LET shown == Report(t, ok, "CheckedIn", "CheckInFailed") IN
       /\ ok => Len(rows) < MaxRows
       /\ rows' = IF ok THEN Append(rows, NewRow(req[r].emp, req[r].now)) ELSE rows
       /\ req' = Finish(r, shown, IF ok THEN "created" ELSE "failed")
       /\ scannerVisible' = Hide(t, shown = "CheckedIn")
  /\ UNCHANGED <<clock, ticks, offset, zone, mode>>
  /\ UNCHANGED scanner

\* ----------------------------------------- check-out: select, then update
\* the select of the latest open row of the employee and the code after it
CheckOutSelect(r) ==
  LET t == req[r].term
      found == Latest(OpenRows(req[r].emp)) IN
  /\ req[r].pc = "co_select"
  /\ IF found = {}
     THEN req' = Finish(r, "NoActiveSession", "none")
     ELSE \E last \in found :
            req' = [req EXCEPT ![r].pc = "co_update", ![r].last = last,
                       ![r].out = Wall(t),
                       ![r].total = TotalHoursMinutes(Wall(t), rows[last].check_in)]
  /\ UNCHANGED <<rows, clock, ticks, offset, zone, mode, scannerVisible>>
  /\ UNCHANGED scanner

\* the update of the row by id and the code after it
CheckOutUpdate(r) ==
  LET t == req[r].term IN
  /\ req[r].pc = "co_update"
  /\ \E ok \in BOOLEAN :
       LET shown == Report(t, ok, "CheckedOut", "CheckOutFailed") IN
       /\ rows' = IF ok
                  THEN [rows EXCEPT ![req[r].last] = CloseRow(@, req[r].out, req[r].total)]
                  ELSE rows
       /\ req' = Finish(r, shown, IF ok THEN "closed" ELSE "failed")
       /\ scannerVisible' = Hide(t, shown = "CheckedOut")
  /\ UNCHANGED <<clock, ticks, offset, zone, mode>>
  /\ UNCHANGED scanner

\* Settings.tsx: the timer set after a success, fired six seconds later
SettingsTimer(r) ==
  /\ req[r].pc = "timer"
  /\ req' = [req EXCEPT ![r].pc = "done"]
  /\ scannerVisible' = [scannerVisible EXCEPT !["Settings"] = TRUE]
  /\ mode' = [mode EXCEPT !["Settings"] = "none"]
  /\ UNCHANGED <<rows, clock, ticks, offset, zone>>
  /\ UNCHANGED scanner

\* ------------------------- EmployeePortal: markAttendanceForEmployeeId
\* the select of today's row of the employee and the code after it
MarkSelect(r) ==
  LET t == req[r].term
      today == TodayRows(t, req[r].emp, req[r].now)
      todayRec == MaybeSingle(today) IN
  /\ req[r].pc = "mk_select"
  /\ IF MaybeSingleError(today)
     THEN /\ req' = Finish(r, "LookupError", "none")
          /\ scannerVisible' = Hide(t, TRUE)
     ELSE IF todayRec = 0
     THEN /\ req' = [req EXCEPT ![r].pc = "mk_insert"]
          /\ UNCHANGED scannerVisible
     ELSE IF rows[todayRec].check_out = Null
     THEN /\ req' = [req EXCEPT ![r].pc = "mk_update", ![r].last = todayRec,
                        ![r].out = req[r].now,
                        ![r].total = TotalHoursExact(req[r].now, rows[todayRec].check_in)]
          /\ UNCHANGED scannerVisible
     ELSE /\ req' = Finish(r, "AlreadyCheckedOut", "none")
          /\ scannerVisible' = Hide(t, TRUE)
  /\ UNCHANGED <<rows, clock, ticks, offset, zone, mode>>
  /\ UNCHANGED scanner

\* the insert of the check-in row and the code after it
MarkInsert(r) ==
  LET t == req[r].term IN
  /\ req[r].pc = "mk_insert"
  /\ \E ok \in BOOLEAN :
       /\ ok => Len(rows) < MaxRows
       /\ rows' = IF ok THEN Append(rows, NewRow(req[r].emp, req[r].now)) ELSE rows
       /\ req' = Finish(r, IF ok THEN "CheckedIn" ELSE "CheckInFailed",
                        IF ok THEN "created" ELSE "failed")
  /\ scannerVisible' = Hide(t, TRUE)
  /\ UNCHANGED <<clock, ticks, offset, zone, mode>>
  /\ UNCHANGED scanner

\* the update of today's row and the code after it
MarkUpdate(r) ==
  LET t == req[r].term IN
  /\ req[r].pc = "mk_update"
  /\ \E ok \in BOOLEAN :
       /\ rows' = IF ok
                  THEN [rows EXCEPT ![req[r].last] = CloseRow(@, req[r].out, req[r].total)]
                  ELSE rows
       /\ req' = Finish(r, IF ok THEN "CheckedOut" ELSE "CheckOutFailed",
                        IF ok THEN "closed" ELSE "failed")
  /\ scannerVisible' = Hide(t, TRUE)
  /\ UNCHANGED <<clock, ticks, offset, zone, mode>>
  /\ UNCHANGED scanner

\* ------------------------------------- writers that insert with no lookup
\* AttendancePage.tsx: handleManualEntry with the Employee ID typed in; the
\* result of the insert is not looked at
handleManualEntry(employeeId) ==
  LET t == "AttendancePage" IN
  /\ employeeId # ""
  /\ \E ok \in BOOLEAN :
       /\ ok => Len(rows) < MaxRows
       /\ rows' = IF ok
                  THEN Append(rows, [NewRow(employeeId, Wall(t))
                                       EXCEPT !.status = "manual_checkin"])
                  ELSE rows
  /\ UNCHANGED <<clock, ticks, offset, zone, mode, scannerVisible, req>>
  /\ UNCHANGED scanner

\* AttendanceWidget: markAttendance(employeeId, "check-in")
WidgetCheckIn(employeeId) ==
  LET t == "AttendanceWidget" IN
  /\ \E ok \in BOOLEAN :
       /\ ok => Len(rows) < MaxRows
       /\ rows' = IF ok THEN Append(rows, NewRow(employeeId, Wall(t))) ELSE rows
  /\ UNCHANGED <<clock, ticks, offset, zone, mode, scannerVisible, req>>
  /\ UNCHANGED scanner

\* AttendanceWidget: markAttendance(employeeId, "check-out") up to its
\* select
WidgetCheckOut(employeeId) ==
  /\ HasFree
  /\ req' = StartReq("AttendanceWidget", "wg_select", employeeId, "check-out")
  /\ UNCHANGED <<rows, clock, ticks, offset, zone, mode, scannerVisible>>
  /\ UNCHANGED scanner

\* the select of the latest of today's rows of the employee, open or
\* closed (.single(): no data when there is none), and the code after it
WidgetSelect(r) ==
  LET t == req[r].term
      found == Latest(TodayRows(t, req[r].emp, req[r].now)) IN
  /\ req[r].pc = "wg_select"
  /\ IF found = {}
     THEN req' = Finish(r, "Nothing", "none")
     ELSE \E latest \in found :
            req' = [req EXCEPT ![r].pc = "wg_update", ![r].last = latest,
                       ![r].out = Wall(t),
                       ![r].total = TotalHoursExact(Wall(t), rows[latest].check_in)]
  /\ UNCHANGED <<rows, clock, ticks, offset, zone, mode, scannerVisible>>
  /\ UNCHANGED scanner

\* the update of that row by id; its result is not looked at
WidgetUpdate(r) ==
  /\ req[r].pc = "wg_update"
  /\ \E ok \in BOOLEAN :
       /\ rows' = IF ok
                  THEN [rows EXCEPT ![req[r].last] = CloseRow(@, req[r].out, req[r].total)]
                  ELSE rows
       /\ req' = Finish(r, "Updated", IF ok THEN "closed" ELSE "failed")
  /\ UNCHANGED <<clock, ticks, offset, zone, mode, scannerVisible>>
  /\ UNCHANGED scanner

\* the two AttendanceScanner pages (AttendancePage.tsx and Settings.tsx)
NextScan ==
  \/ Tick
  \/ \E t \in {"AttendancePage", "Settings"}, type \in {"check-in", "check-out"} :
       startScanner(t, type)
  \/ \E msg \in Messages : AttendancePageHandler(msg)
  \/ \E msg \in Messages : SettingsHandleScan(msg)
  \/ \E r \in Reqs : CheckInSelect(r)
  \/ \E r \in Reqs : CheckInInsert(r)
  \/ \E r \in Reqs : CheckOutSelect(r)
  \/ \E r \in Reqs : CheckOutUpdate(r)
  \/ \E r \in Reqs : SettingsTimer(r)

\* the EmployeePortal (ShiftsManagement.tsx) next to markAttendance
NextPortal ==
  \/ Tick
  \/ \E type \in {"check-in", "check-out"} : openFingerprintScanner(type)
  \/ closeScanner
  \/ \E msg \in Messages : EmployeePortalOnMessage(msg)
  \/ \E e \in Persons, type \in {"check-in", "check-out"} : LibMarkAttendance(e, type)
  \/ \E r \in Reqs : CheckInSelect(r)
  \/ \E r \in Reqs : CheckInInsert(r)
  \/ \E r \in Reqs : CheckOutSelect(r)
  \/ \E r \in Reqs : CheckOutUpdate(r)
  \/ \E r \in Reqs : MarkSelect(r)
  \/ \E r \in Reqs : MarkInsert(r)
  \/ \E r \in Reqs : MarkUpdate(r)

SpecScan == Init /\ [][NextScan]_vars
SpecPortal == Init /\ [][NextPortal]_vars

OneAtATime == \A r \in Reqs : r > 1 => req[r].pc = "idle"

\* the AttendancePage and the EmployeePortal on terminals of different
\* timezones, used one scan at a time
NextZones ==
  \/ TickHours
  \/ \E type \in {"check-in", "check-out"} : startScanner("AttendancePage", type)
  \/ \E msg \in Messages : AttendancePageHandler(msg) /\ OneAtATime'
  \/ \E msg \in Messages : EmployeePortalOnMessage(msg) /\ OneAtATime'
  \/ \E r \in Reqs : CheckInSelect(r)
  \/ \E r \in Reqs : CheckInInsert(r)
  \/ \E r \in Reqs : CheckOutSelect(r)
  \/ \E r \in Reqs : CheckOutUpdate(r)
  \/ \E r \in Reqs : MarkSelect(r)
  \/ \E r \in Reqs : MarkInsert(r)
  \/ \E r \in Reqs : MarkUpdate(r)
SpecZones == InitZones /\ [][NextZones]_vars

\* every writer of the attendances table of the AttendancePage, of the
\* AttendanceWidget and of the EmployeePortal
NextWriters ==
  \/ Tick
  \/ \E type \in {"check-in", "check-out"} : startScanner("AttendancePage", type)
  \/ \E msg \in Messages : AttendancePageHandler(msg)
  \/ \E msg \in Messages : EmployeePortalOnMessage(msg)
  \/ \E e \in Persons \cup {""} : handleManualEntry(e)
  \/ \E e \in Persons : WidgetCheckIn(e)
  \/ \E e \in Persons : WidgetCheckOut(e)
  \/ \E r \in Reqs : CheckInSelect(r)
  \/ \E r \in Reqs : CheckInInsert(r)
  \/ \E r \in Reqs : CheckOutSelect(r)
  \/ \E r \in Reqs : CheckOutUpdate(r)
  \/ \E r \in Reqs : MarkSelect(r)
  \/ \E r \in Reqs : MarkInsert(r)
  \/ \E r \in Reqs : MarkUpdate(r)
  \/ \E r \in Reqs : WidgetSelect(r)
  \/ \E r \in Reqs : WidgetUpdate(r)
SpecWriters == Init /\ [][NextWriters]_vars

\* the three pages while the scanner acquires no sample: every message
\* they receive was posted by a window other than the scanner's matcher
\* (window.postMessage from any frame or opener, of the same origin or not)
NextForged ==
  \/ Tick
  \/ \E t \in {"AttendancePage", "Settings"}, type \in {"check-in", "check-out"} :
       startScanner(t, type)
  \/ \E msg \in Messages : AttendancePageHandler(msg) /\ OneAtATime'
  \/ \E msg \in Messages : SettingsHandleScan(msg) /\ OneAtATime'
  \/ \E msg \in Messages : EmployeePortalOnMessage(msg) /\ OneAtATime'
  \/ \E r \in Reqs : CheckInSelect(r)
  \/ \E r \in Reqs : CheckInInsert(r)
  \/ \E r \in Reqs : CheckOutSelect(r)
  \/ \E r \in Reqs : CheckOutUpdate(r)
  \/ \E r \in Reqs : SettingsTimer(r)
  \/ \E r \in Reqs : MarkSelect(r)
  \/ \E r \in Reqs : MarkInsert(r)
  \/ \E r \in Reqs : MarkUpdate(r)
SpecForged == Init /\ [][NextForged]_vars

\* the scanner pages used one scan at a time, the wall clock of the
\* Settings terminal being ahead of the others
NextSkew == NextScan /\ OneAtATime'
SpecSkew == InitSkew /\ [][NextSkew]_vars

\* ------------------------------------------- the scorer on its own
\* a call computeSSIM(imgData1, imgData2) on any two decoded images
InitScorer ==
  /\ Start /\ offset = [t \in Terminals |-> 0] /\ zone = [t \in Terminals |-> 0]
  /\ ScannerStart("attendance")
  /\ ssim \in {[Unscored EXCEPT !.pc = "call", !.imgData1 = a, !.imgData2 = b] :
                 a \in Images, b \in Images}

\* the call returns: computeSSIM has no other exit
ScoreReturn ==
  LET result == computeSSIM(ssim.imgData1, ssim.imgData2) IN
  /\ ssim.pc = "call"
  /\ ssim' = [ssim EXCEPT !.pc = "returned", !.blocks = result.blocks,
                          !.score = result.score]
  /\ UNCHANGED <<rows, clock, ticks, offset, zone, mode, scannerVisible, req>>
  /\ UNCHANGED <<urlMode, employeeList, run, acquiring>>

NextScorer == ScoreReturn
SpecScorer == InitScorer /\ [][NextScorer]_vars

\* -------------------------------------------- scanner page: handlers
\* the message listener: an employees message replaces the roster (each
\* invocation suspended in its loop notes that one arrived meanwhile)
EmployeesMessage(list) ==
  /\ employeeList' = list
  /\ run' = [r \in Runs |-> IF run[r].pc = "loop"
                             THEN [run[r] EXCEPT !.refreshed = TRUE] ELSE run[r]]
  /\ UNCHANGED <<rows, clock, ticks, offset, zone, mode, scannerVisible, req>>
  /\ UNCHANGED <<urlMode, acquiring, ssim>>

\* a > b and a >= b on JavaScript numbers: false when either is NaN
Greater(a, b) == a # NaN /\ b # NaN /\ Val(a) > Val(b)
AtLeast(a, b) == a # NaN /\ b # NaN /\ Val(a) >= Val(b)

\* if (!bestMatch || score > bestMatch.score) bestMatch = { emp, score }
Better(bestMatch, emp, score) ==
  IF bestMatch = Null \/ Greater(score, Val(bestMatch).score)
  THEN Some([emp |-> emp, score |-> score])
  ELSE bestMatch

\* the message posted to the parent after the loop
Outcome(bestMatch) ==
  IF bestMatch # Null /\ AtLeast(Val(bestMatch).score, Num(THRESHOLD))
  THEN [type |-> "fingerprint-attendance", status |-> "match",
        employee |-> Val(bestMatch).emp.emp]
  ELSE [type |-> "fingerprint-attendance", status |-> "no_match", employee |-> "none"]

FreeRun(r) == run[r].pc \in {"idle", "done"}
FreeRunSlot == CHOOSE r \in Runs : FreeRun(r) /\ \A q \in Runs : q < r => ~FreeRun(q)

\* sdk.onSamplesAcquired(s) up to its first await.  The invocation takes
\* the first free slot; the records of the invocations that returned
\* before are dropped.
onSamplesAcquired(capture) ==
  LET r == FreeRunSlot
      kept == [q \in Runs |-> IF run[q].pc = "done" THEN IdleRun ELSE run[q]]
      this == [IdleRun EXCEPT !.capture = capture] IN
  /\ acquiring
  /\ \E q \in Runs : FreeRun(q)
  /\ IF urlMode = "attendance" /\ Len(employeeList) > 0
     THEN /\ run' = [kept EXCEPT ![r] = [this EXCEPT !.pc = "loop",
                                              !.list = employeeList, !.idx = 1]]
          /\ UNCHANGED acquiring
     ELSE IF urlMode = "register"
     THEN /\ run' = [kept EXCEPT ![r] =
                       [this EXCEPT !.pc = "done",
                                    !.message = [type |-> "fingerprint-register",
                                                 status |-> "none", employee |-> "none"]]]
          /\ acquiring' = FALSE
     ELSE /\ run' = [kept EXCEPT ![r] = [this EXCEPT !.pc = "done"]]
          /\ UNCHANGED acquiring
  /\ UNCHANGED <<rows, clock, ticks, offset, zone, mode, scannerVisible, req>>
  /\ UNCHANGED <<urlMode, employeeList, ssim>>

\* the comparisons started together and bestMatch updated as each one
\* resolves, in any order, instead of one awaited after the other
CompareAnyOrder(r) ==
  /\ run[r].pc = "loop"
  /\ \E i \in 1..Len(run[r].list) :
       LET emp == run[r].list[i]
           score == computeSSIM(run[r].capture, emp.biometric_data.image).score
           best == Better(run[r].bestMatch, emp, score)
           last == Len(run[r].scored) + 1 = Len(run[r].list) IN
       /\ \A k \in 1..Len(run[r].scored) : run[r].scored[k] # emp
       /\ emp.biometric_data.decodes
       /\ run' = [run EXCEPT ![r].bestMatch = best,
                             ![r].scored = Append(@, emp),
                             ![r].idx = IF last THEN @ ELSE @ + 1,
                             ![r].pc = IF last THEN "done" ELSE "loop",
                             ![r].message = IF last THEN Outcome(best) ELSE @]
       /\ acquiring' = IF last THEN FALSE ELSE acquiring
  /\ UNCHANGED <<rows, clock, ticks, offset, zone, mode, scannerVisible, req>>
  /\ UNCHANGED <<urlMode, employeeList, ssim>>

\* the loop written over the roster variable, for (i = 0; i <
\* employeeList.length; i++), instead of over the array it held at the start
CompareLive(r) ==
  LET past == run[r].idx > Len(employeeList)
      emp == employeeList[run[r].idx]
      score == computeSSIM(run[r].capture, emp.biometric_data.image).score
      best == IF past THEN run[r].bestMatch ELSE Better(run[r].bestMatch, emp, score)
      last == run[r].idx >= Len(employeeList) IN
  /\ run[r].pc = "loop"
  /\ past \/ emp.biometric_data.decodes
  /\ run' = [run EXCEPT ![r].bestMatch = best,
                        ![r].scored = IF past THEN @ ELSE Append(@, emp),
                        ![r].idx = IF last THEN @ ELSE @ + 1,
                        ![r].pc = IF last THEN "done" ELSE "loop",
                        ![r].message = IF last THEN Outcome(best) ELSE @]
  /\ acquiring' = IF last THEN FALSE ELSE acquiring
  /\ UNCHANGED <<rows, clock, ticks, offset, zone, mode, scannerVisible, req>>
  /\ UNCHANGED <<urlMode, employeeList, ssim>>

\* one turn of the loop: compareFingerprintSSIM resolves (it never does
\* when the template does not decode) and bestMatch is updated; after the
\* last template the outcome is posted and the acquisition stopped
Compare(r) ==
  LET emp == run[r].list[run[r].idx]
      score == computeSSIM(run[r].capture, emp.biometric_data.image).score
      best == Better(run[r].bestMatch, emp, score)
      last == run[r].idx = Len(run[r].list) IN
  /\ run[r].pc = "loop"
  /\ emp.biometric_data.decodes
  /\ run' = [run EXCEPT ![r].bestMatch = best,
                        ![r].scored = Append(@, emp),
                        ![r].idx = IF last THEN @ ELSE @ + 1,
                        ![r].pc = IF last THEN "done" ELSE "loop",
                        ![r].message = IF last THEN Outcome(best) ELSE @]
  /\ acquiring' = IF last THEN FALSE ELSE acquiring
  /\ UNCHANGED <<rows, clock, ticks, offset, zone, mode, scannerVisible, req>>
  /\ UNCHANGED <<urlMode, employeeList, ssim>>

InitMatcher ==
  /\ Start /\ offset = [t \in Terminals |-> 0] /\ zone = [t \in Terminals |-> 0]
  /\ \E m \in {"attendance", "register"} : ScannerStart(m)
  /\ ssim = Unscored

\* one sample at a time: the next sample comes after the handler of the
\* last one returned
OneScan == \A r \in Runs : r > 1 => run[r].pc = "idle"

NextMatcher ==
  \/ \E list \in Rosters(MaxRoster) : EmployeesMessage(list)
  \/ \E capture \in Captures : onSamplesAcquired(capture) /\ OneScan'
  \/ \E r \in Runs : Compare(r)

SpecMatcher == InitMatcher /\ [][NextMatcher]_vars

\* samples that arrive while earlier ones are still being matched, the
\* rosters one template shorter
NextScans ==
  \/ \E list \in Rosters(MaxRoster - 1) : EmployeesMessage(list)
  \/ \E capture \in Captures : onSamplesAcquired(capture)
  \/ \E r \in Runs : Compare(r)

SpecScans == InitMatcher /\ [][NextScans]_vars

\* ============================================================ properties
InFlight(r) == req[r].pc \notin {"idle", "done", "timer"}
Finished(r) == req[r].pc \in {"done", "timer"} /\ req[r].outcome # "none"
Decided(r, pc) == req[r].pc = pc /\ req'[r].pc # pc

\* the calendar day of an instant
dayKey(d) == d \div DayLen

\* the sessions of person p on day d: open ones, closed ones
OpenOn(p, d) ==
  {i \in RowIds : /\ rows[i].employee_id = p /\ rows[i].check_out = Null
                  /\ dayKey(rows[i].check_in) = d}
ClosedOn(p, d) ==
  {i \in RowIds : /\ rows[i].employee_id = p /\ rows[i].check_out # Null
                  /\ dayKey(rows[i].check_in) = d}

\* C1: each person has at most one open session (check_out null) per day,
\* whatever the interleaving of the check-in and check-out requests
C1_AtMostOneOpenSession ==
  \A p \in Persons, i \in RowIds, j \in RowIds :
    (i \in OpenOn(p, dayKey(rows[i].check_in)) /\ j \in OpenOn(p, dayKey(rows[i].check_in)))
      => i = j

\* C2: of the check-in attempts for one person and day that ran concurrently
\* (none of them hit by a storage failure), exactly one creates the session
\* and every other one ends with AlreadyCheckedIn
CheckInAttempt(r) ==
  /\ Finished(r) /\ req[r].mode = "check-in" /\ req[r].term # "EmployeePortal"
  /\ req[r].effect # "failed"
C2_OneOfConcurrentCheckIns ==
  \A r \in Reqs, q \in Reqs :
    (/\ r # q /\ CheckInAttempt(r) /\ CheckInAttempt(q)
     /\ req[r].emp = req[q].emp /\ dayKey(req[r].now) = dayKey(req[q].now)
     /\ req[r].effect = "created")
      => req[q].outcome = "AlreadyCheckedIn"

\* C3: a check-in request is rejected with AlreadyCheckedIn, the table left
\* as it is, exactly when the person has an open session on the day of the
\* request; otherwise it goes on to insert one open row stamped with now
C3_CheckInRejectedIffOpenToday ==
  [][\A r \in Reqs :
       /\ Decided(r, "ci_select") =>
            /\ (req'[r].outcome = "AlreadyCheckedIn")
                 <=> (OpenOn(req[r].emp, dayKey(req[r].now)) # {})
            /\ rows' = rows
       /\ (Decided(r, "ci_insert") /\ req'[r].effect = "created") =>
            rows' = Append(rows, NewRow(req[r].emp, req[r].now))]_vars

\* C4: a check-out request is rejected with NoActiveSession, the table left
\* as it is, exactly when the person has no open session on the day of the
\* request; otherwise it goes on to close that session
C4_CheckOutRejectedIffNoneOpenToday ==
  [][\A r \in Reqs :
       Decided(r, "co_select") =>
         /\ (req'[r].outcome = "NoActiveSession")
              <=> (OpenOn(req[r].emp, dayKey(Wall(req[r].term))) = {})
         /\ req'[r].outcome # "NoActiveSession" =>
              req'[r].last \in OpenOn(req[r].emp, dayKey(Wall(req[r].term)))
         /\ rows' = rows]_vars

\* C5: a check-out request for a person whose session of the day is closed
\* and who has no open session (the third call of check-in, check-out,
\* check-out) is rejected with AlreadyCheckedOut and changes no row
C5_SecondCheckOutAlreadyCheckedOut ==
  [][\A r \in Reqs :
       (/\ Decided(r, "co_select")
        /\ ClosedOn(req[r].emp, dayKey(Wall(req[r].term))) # {}
        /\ OpenRows(req[r].emp) = {})
         => req'[r].outcome = "AlreadyCheckedOut" /\ rows' = rows]_vars

\* C6: no handler turns a requested check-out into a check-in (a created
\* session) nor a requested check-in into a check-out (a closed session)
C6_ActionNeverConverted ==
  \A r \in Reqs :
    /\ ~(req[r].mode = "check-out" /\ req[r].effect = "created")
    /\ ~(req[r].mode = "check-in" /\ req[r].effect = "closed")

\* C7: a session closed at or after its check-in has totalHours equal to
\* the elapsed seconds / 3600 rounded to two decimals (in hundredths here)
C7_TotalHoursOfElapsedSeconds ==
  \A i \in RowIds :
    (rows[i].check_out # Null /\ Val(rows[i].check_out) >= rows[i].check_in)
      => Val(rows[i].total_hours)
           = RoundDiv((Val(rows[i].check_out) - rows[i].check_in) * 100, SecondsPerHour)

\* C8: every session that has a check-out time has it at or after its
\* check-in time, also when the two were stamped by different wall clocks
C8_CheckOutNotBeforeCheckIn ==
  \A i \in RowIds :
    rows[i].check_out # Null => Val(rows[i].check_out) >= rows[i].check_in

\* C9: once a person's session of a day is closed, a later check-in of
\* that day (one that looks the sessions up after the close) is rejected:
\* it does not go on to insert another session for that person and day
C9_ClosedIsTerminal ==
  [][\A r \in Reqs :
       (/\ Decided(r, "ci_select") \/ Decided(r, "mk_select")
        /\ ClosedOn(req[r].emp, dayKey(req[r].now)) # {})
         => req'[r].pc \notin {"ci_insert", "mk_insert"}]_vars

\* C10: a scanner message that a page receives while no action is selected
\* or while its scanner is closed neither creates nor closes a session
Abandoned(r) ==
  /\ InFlight(r) /\ req[r].term # "Lib"
  /\ (req[r].mode = "none" \/ ~req[r].visible)
C10_AbandonedScanChangesNothing ==
  [][\A r \in Reqs : (Abandoned(r) /\ req'[r] # req[r]) => rows' = rows]_vars

\* C11: an invocation whose storage write failed ends with a failure
\* outcome; Checked In / Checked Out is shown only by an invocation that
\* created or closed a session
C11_SuccessOnlyIfWritten ==
  \A r \in Reqs :
    Finished(r) =>
      /\ req[r].outcome \in {"CheckedIn", "CheckedOut"}
           => req[r].effect \in {"created", "closed"}
      /\ req[r].effect = "failed"
           => req[r].outcome \in {"CheckInFailed", "CheckOutFailed"}

\* C16: a call of the scorer on two images whose widths or heights differ
\* fails with IncompatibleImage; it does not return a score
DimensionsDiffer ==
  \/ ssim.imgData1.width # ssim.imgData2.width
  \/ ssim.imgData1.height # ssim.imgData2.height
C16_MismatchedImagesRejected ==
  (ssim.pc # "call" /\ DimensionsDiffer)
    => ssim.pc = "IncompatibleImage" /\ ssim.score = NaN

\* C18: no block of the scorer divides by zero: in every block the divisor
\* N - 1 of the variances and of the covariance is not zero
C18_NoDivisionByZero ==
  ssim.pc = "returned" =>
    \A b \in 1..Len(ssim.blocks) : ssim.blocks[b].divisor # 0

\* C12: a capture handled in attendance mode ends with an outcome message
\* posted to the parent and with the acquisition stopped
\* (no handler has returned without one, and none waits for an image
\* that will never decode)
Stuck(r) ==
  run[r].pc = "loop" /\ ~run[r].list[run[r].idx].biometric_data.decodes
C12_EveryCaptureHasOutcome ==
  \A r \in Runs :
    /\ (run[r].pc = "done" /\ urlMode = "attendance")
         => run[r].message.type = "fingerprint-attendance" /\ ~acquiring
    /\ ~Stuck(r)

\* C13: a capture matched against an empty roster posts no_match
C13_EmptyRosterNoMatch ==
  \A r \in Runs :
    (run[r].pc = "done" /\ urlMode = "attendance" /\ run[r].list = <<>>)
      => run[r].message.status = "no_match"

\* the score of the i-th template of the roster of invocation r, and the
\* templates that attain the greatest of the scores that are numbers
ScoreOf(r, i) ==
  computeSSIM(run[r].capture, run[r].list[i].biometric_data.image).score
Scored(r) == {i \in 1..Len(run[r].list) : ScoreOf(r, i) # NaN}
IsMax(r, i) ==
  i \in Scored(r) /\ \A j \in Scored(r) : Val(ScoreOf(r, i)) >= Val(ScoreOf(r, j))
Matched(r) == run[r].pc = "done" /\ run[r].list # <<>>

\* C14: for a non-empty roster the outcome is a match of p exactly when the
\* greatest score is at least THRESHOLD, p being a template that attains
\* it, and no_match otherwise
C14_MatchIffMaxAtLeastThreshold ==
  \A r \in Runs :
    Matched(r) =>
      IF \E i \in 1..Len(run[r].list) : IsMax(r, i) /\ Val(ScoreOf(r, i)) >= THRESHOLD
      THEN /\ run[r].message.status = "match"
           /\ \E i \in 1..Len(run[r].list) :
                IsMax(r, i) /\ run[r].message.employee = run[r].list[i].emp
      ELSE run[r].message.status = "no_match"

\* C15: when two or more templates attain the greatest score, the template
\* selected is the one of them that comes first in the roster
C15_FirstOfTiedSelected ==
  \A r \in Runs :
    (/\ Matched(r)
     /\ \E i, j \in 1..Len(run[r].list) : i # j /\ IsMax(r, i) /\ IsMax(r, j))
      => /\ run[r].bestMatch # Null
         /\ \E i \in 1..Len(run[r].list) :
              /\ IsMax(r, i) /\ \A j \in 1..(i - 1) : ~IsMax(r, j)
              /\ Val(run[r].bestMatch).emp = run[r].list[i]

\* C17: a template whose comparison is invalid (its image and the capture
\* differ in width or height, or the score is not a number) is never the
\* match, and does not keep a valid template that scores at least
\* THRESHOLD from being matched
ValidAt(r, i) ==
  LET img == run[r].list[i].biometric_data.image IN
  /\ img.width = run[r].capture.width /\ img.height = run[r].capture.height
  /\ ScoreOf(r, i) # NaN
C17_InvalidTemplateSkipped ==
  \A r \in Runs :
    Matched(r) =>
      /\ run[r].message.status = "match" =>
           \E i \in 1..Len(run[r].list) :
             ValidAt(r, i) /\ run[r].list[i].emp = run[r].message.employee
      /\ (\E i \in 1..Len(run[r].list) :
            ValidAt(r, i) /\ Val(ScoreOf(r, i)) >= THRESHOLD)
           => run[r].message.status = "match"

\* C20: the templates an invocation scores are those of the roster it found
\* when it started, in that order, and the employee it reports is one of
\* them, also when an employees message arrived during its loop
C20_RosterIsSnapshot ==
  \A r \in Runs :
    run[r].pc \in {"loop", "done"} =>
      /\ Len(run[r].scored) <= Len(run[r].list)
      /\ run[r].scored = SubSeq(run[r].list, 1, Len(run[r].scored))
      /\ run[r].pc = "done" /\ run[r].list # <<>> => run[r].scored = run[r].list
      /\ run[r].message.status = "match" =>
           \E i \in 1..Len(run[r].list) : run[r].list[i].emp = run[r].message.employee
C20_RosterReplacedDuringLoop ==
  \E r \in Runs :
    /\ run[r].pc = "done" /\ run[r].refreshed /\ employeeList # run[r].list
    /\ Len(run[r].list) >= 2 /\ run[r].message.status = "match"

\* C19: two invocations given the same capture and the same roster post
\* the same outcome (status and employee), however their comparisons and
\* the employees messages interleave
C19_SameInputsSameOutcome ==
  \A r, q \in Runs :
    (/\ run[r].pc = "done" /\ run[q].pc = "done"
     /\ run[r].capture = run[q].capture /\ run[r].list = run[q].list)
      => run[r].message = run[q].message
C19_TwoMatchesOfOneInput ==
  \E r, q \in Runs :
    /\ r # q /\ run[r].pc = "done" /\ run[q].pc = "done"
    /\ run[r].capture = run[q].capture /\ run[r].list = run[q].list
    /\ Len(run[r].list) >= 2 /\ run[r].refreshed
    /\ run[r].message.status = "match"

\* C22: the score of an image against itself is 1.0 (1000 thousandths)
C22_SelfSimilarityIsOne ==
  (ssim.pc = "returned" /\ ssim.imgData1 = ssim.imgData2)
    => ssim.score = Num(ScoreUnit)

\* C25: the blocks visited partition the pixel grid of the first image:
\* every pixel lies in exactly one block, a block holds 1 to 64 pixels (as
\* many as the grid has in its window), there are ceil(w/8) * ceil(h/8)
\* blocks, and the score is the sum of the block values over that number
InBlock(b, i, j) ==
  /\ b.x <= i /\ i < b.x + windowSize
  /\ b.y <= j /\ j < b.y + windowSize
CeilDiv(n, d) == (n + d - 1) \div d
C24_OneScanInFlight ==
  Cardinality({r \in Runs : run[r].pc = "loop"}) <= 1

\* C26: a check-in whose lookup finds at least one open row of the employee
\* (one, two or more) is rejected with Already Checked In and goes on to no
\* insert
C26_RejectedWheneverOpenRow ==
  [][\A r \in Reqs :
       (Decided(r, "ci_select") /\ OpenRows(req[r].emp) # {})
         => /\ req'[r].outcome = "AlreadyCheckedIn"
            /\ req'[r].pc # "ci_insert"]_vars

\* C27: a row that has a check-out time is never written again: its
\* check_out and total_hours stay as the request that closed it stored them
C27_ClosedRowNeverOverwritten ==
  [][\A i \in RowIds :
       rows[i].check_out # Null
         => /\ rows'[i].check_out = rows[i].check_out
            /\ rows'[i].total_hours = rows[i].total_hours]_vars

\* C30: a check-out that succeeds writes one row, which at the time of the
\* write is an open row of the employee with the latest check_in, and
\* leaves every other row as it was
C30_CheckOutWritesLatestOpenRow ==
  [][\A r \in Reqs :
       (Decided(r, "co_update") /\ req'[r].effect = "closed")
         => \E i \in Latest(OpenRows(req[r].emp)) :
              /\ rows'[i].check_out # Null
              /\ \A j \in RowIds \ {i} : rows'[j] = rows[j]]_vars

\* C21: at every instant all terminals take the same rows to be today's:
\* the bounds of the day a terminal computes for the instant are those of
\* the day of the one reference timezone (UTC here)
C21_TerminalsAgreeOnToday ==
  \A t \in Terminals, e \in Persons :
    TodayRows(t, e, Wall(t)) = {i \in RowIds : /\ rows[i].employee_id = e
                                               /\ dayKey(rows[i].check_in) = dayKey(clock)}

\* C23: a session of person p is created or closed only by an invocation
\* that answers a match of p posted by the matcher of the scanner page
PostedMatch(p) ==
  \E k \in Runs :
    /\ run[k].pc = "done" /\ run[k].message.type = "fingerprint-attendance"
    /\ run[k].message.status = "match" /\ run[k].message.employee = p
C23_MutationOnlyAfterMatch ==
  \A r \in Reqs :
    (req[r].term # "Lib" /\ req[r].effect \in {"created", "closed"})
      => PostedMatch(req[r].emp)

\* C28: after any sequence of scan check-ins and check-outs, manual entries
\* and quick-attendance check-ins, at most one row of an employee has
\* check_out null
C28_OneOpenRowPerEmployee ==
  \A p \in Persons : Cardinality(OpenRows(p)) <= 1

\* C29: every row is consistent: check_out is null exactly when the status
\* is checked_in or manual_checkin, set exactly when it is checked_out,
\* and total_hours is set exactly when check_out is
C29_RowFieldsConsistent ==
  \A i \in RowIds :
    /\ rows[i].status \in {"checked_in", "manual_checkin", "checked_out"}
    /\ (rows[i].check_out = Null) <=> (rows[i].status \in {"checked_in", "manual_checkin"})
    /\ (rows[i].check_out # Null) <=> (rows[i].status = "checked_out")
    /\ (rows[i].total_hours # Null) <=> (rows[i].check_out # Null)
C29_ClosedAndManualRows ==
  \E i, j \in RowIds :
    /\ rows[i].status = "checked_out" /\ rows[i].check_out # Null
    /\ rows[j].status = "manual_checkin"
====
